---- MODULE Spec2Model ----
(***************************************************************************)
(* html-dom-visualize: the tree transformation core of visualizer.py.     *)
(*                                                                         *)
(* The parsed document (soup) is a rooted ordered tree.  Node 0 is the     *)
(* BeautifulSoup object itself (name "[document]"), nodes 1..n are the Tag *)
(* objects.  children[x] is the ordered sequence of the Tag children of x, *)
(* text[x] the content of the NavigableString child of x (<< >> if none),  *)
(* attrs[x] the attribute dict of x in insertion order.  Strings are       *)
(* sequences of one-character strings.                                     *)
(***************************************************************************)
EXTENDS Integers, Sequences, FiniteSets, TLC

VARIABLES
    children,       \* node -> sequence of its Tag children (node.children, Tags only)
    text,           \* node -> characters of its NavigableString child, << >> if none
    name,           \* node -> tag name (Tag.name)
    attrs,          \* node -> sequence of [k, v] (Tag.attrs, a dict in insertion order)
    addr,           \* node -> id(element), the object's identity
    before,         \* [children, attrs] as they were when the last call started
    branch_filter,  \* the predicate handed to _filter_branches
    should_mask,    \* the predicate handed to _mask_elements
    mask_fn,        \* "default", "None" or "unset": the mask_fn of the last call
    tree_data,      \* sequence of [id, label, parent, hover_text] (the four lists)
    wtext,          \* the text handed to _add_line_breaks
    char_limit,     \* its char_limit
    wrapped,        \* its result
    rewrapped,      \* the result of wrapping the result again
    pc              \* position in the run

vars == <<children, text, name, attrs, addr, before, branch_filter, should_mask,
          mask_fn, tree_data, wtext, char_limit, wrapped, rewrapped, pc>>

(***************************************************************************)
(* Bounds of the model.                                                    *)
(***************************************************************************)
MaxFilterNodes == 4
MaxMaskNodes == 3
MaxTextLen == 6
MaxLimit == 3

(***************************************************************************)
(* The tree.                                                               *)
(***************************************************************************)
Nodes == DOMAIN children

Root == 0

RECURSIVE Subtree(_, _)
\* x and every Tag below it (Tag.descendants, Tags only, plus x itself).
Subtree(ch, x) ==
    {x} \cup UNION {Subtree(ch, ch[x][i]) : i \in 1..Len(ch[x])}

\* The Tags reachable from the soup.
InTree(ch) == Subtree(ch, Root)

\* The proper descendants of x.
Descendants(ch, x) == Subtree(ch, x) \ {x}

\* The proper ancestors of x: every node that has x strictly below it.
Ancestors(ch, x) == {y \in DOMAIN ch : x \in Descendants(ch, y)}

\* len(list(node.children)): the Tag children and the NavigableString child.
NumChildren(ch, x) == Len(ch[x]) + (IF text[x] # << >> THEN 1 ELSE 0)

\* child.decompose(), child a Tag child of node: child leaves node's contents and
\* the whole subtree of child is destroyed (every contents list emptied).
Decompose(ch, node, child) ==
    LET gone == Subtree(ch, child)
    IN  [x \in DOMAIN ch |->
            IF x = node THEN SelectSeq(ch[node], LAMBDA c : c # child)
            ELSE IF x \in gone THEN << >>
            ELSE ch[x]]

(***************************************************************************)
(* Predicates over elements.  A predicate is a pure function of a single   *)
(* element: the set of the nodes it is true of.  given = FALSE is None.    *)
(***************************************************************************)
NoPredicate == [given |-> FALSE, sat |-> {}]

Predicate(S) == [given |-> TRUE, sat |-> S]

Holds(p, x) == x \in p.sat

(***************************************************************************)
(* _filter_branches                                                        *)
(***************************************************************************)
RECURSIVE FilterBranches(_, _, _)
RECURSIVE FilterChildren(_, _, _, _, _, _)
RECURSIVE FilterChildrenNoDecompose(_, _, _, _, _, _)
RECURSIVE FilterChildrenLive(_, _, _, _, _, _)

\* FilterChildren without the else branch: a child that reports "not kept" is
\* left in place.
FilterChildrenNoDecompose(ch, node, kids, i, keep, p) ==
    IF i > Len(kids) THEN [keep |-> keep, ch |-> ch]
    ELSE LET r == FilterBranches(ch, kids[i], p)
         IN  FilterChildrenNoDecompose(r.ch, node, kids, i + 1, keep \/ r.keep, p)

\* FilterChildren iterating node.children itself instead of a copy: removing the
\* child at position i shifts the rest, and the loop skips the next sibling.
FilterChildrenLive(ch, node, kids, i, keep, p) ==
    IF i > Len(kids) THEN [keep |-> keep, ch |-> ch]
    ELSE LET r == FilterBranches(ch, kids[i], p)
         IN  IF r.keep
             THEN FilterChildrenLive(r.ch, node, kids, i + 1, TRUE, p)
             ELSE FilterChildrenLive(Decompose(r.ch, node, kids[i]), node, kids,
                                     i + 2, keep, p)

\* The for loop of _filter_branches over the copy `kids` of node's children, from
\* position i on; keep is should_keep so far.  Returns [keep, ch].
FilterChildren(ch, node, kids, i, keep, p) ==
    IF i > Len(kids) THEN [keep |-> keep, ch |-> ch]
    ELSE LET r == FilterBranches(ch, kids[i], p)
         IN  IF r.keep
             THEN FilterChildren(r.ch, node, kids, i + 1, TRUE, p)
             ELSE FilterChildren(Decompose(r.ch, node, kids[i]), node, kids,
                                 i + 1, keep, p)

\* FilterBranches without the early return of line 135: a matching node is kept
\* and its children are filtered all the same.
FilterBranchesDescend(ch, node, p) ==
    IF ~p.given THEN [keep |-> TRUE, ch |-> ch]
    ELSE IF NumChildren(ch, node) = 0 /\ ~Holds(p, node)
         THEN [keep |-> FALSE, ch |-> ch]
    ELSE LET r == FilterChildren(ch, node, ch[node], 1, FALSE, p)
         IN  [keep |-> r.keep \/ Holds(p, node), ch |-> r.ch]

\* _filter_branches(node, branch_filter) on the tree ch: the value returned and
\* the tree it leaves.
FilterBranches(ch, node, p) ==
    IF ~p.given THEN [keep |-> TRUE, ch |-> ch]
    ELSE IF Holds(p, node) THEN [keep |-> TRUE, ch |-> ch]
    ELSE IF NumChildren(ch, node) = 0 /\ ~Holds(p, node)
         THEN [keep |-> FALSE, ch |-> ch]
    ELSE FilterChildren(ch, node, ch[node], 1, FALSE, p)

(***************************************************************************)
(* Strings: sequences of one-character strings.                            *)
(***************************************************************************)
\* The characters str.split() treats as separators.
IsSpace(c) == c \in {" ", "\n", "\t"}

RECURSIVE SplitFrom(_, _, _, _)
\* text.split() from position i on: cur is the word being read, acc the words
\* read so far.  Runs of whitespace separate words and none is empty.
SplitFrom(s, i, cur, acc) ==
    IF i > Len(s) THEN (IF cur = << >> THEN acc ELSE Append(acc, cur))
    ELSE IF IsSpace(s[i])
         THEN SplitFrom(s, i + 1, << >>, IF cur = << >> THEN acc ELSE Append(acc, cur))
    ELSE SplitFrom(s, i + 1, Append(cur, s[i]), acc)

\* text.split()
Split(s) == SplitFrom(s, 1, << >>, << >>)

RECURSIVE Join(_, _)
\* sep.join(parts)
Join(parts, sep) ==
    IF parts = << >> THEN << >>
    ELSE IF Len(parts) = 1 THEN parts[1]
    ELSE parts[1] \o sep \o Join(Tail(parts), sep)

\* The line-break marker '<br />'.
Marker == <<"<", "b", "r", " ", "/", ">">>

(***************************************************************************)
(* _add_line_breaks                                                        *)
(***************************************************************************)
RECURSIVE WrapLoop(_, _, _, _)
RECURSIVE WrapLoopAtLimit(_, _, _, _)

\* WrapLoop breaking already when the line would reach the limit: >= for >.
WrapLoopAtLimit(words, i, st, limit) ==
    IF i > Len(words) THEN st
    ELSE LET word == words[i]
         IN  IF st.current_length + Len(word) >= limit
             THEN WrapLoopAtLimit(words, i + 1,
                      [result |-> Append(st.result,
                                         Join(st.current_line, <<" ">>) \o Marker),
                       lines |-> Append(st.lines, st.current_line),
                       current_line |-> <<word>>,
                       current_length |-> Len(word)], limit)
             ELSE WrapLoopAtLimit(words, i + 1,
                      [result |-> st.result,
                       lines |-> st.lines,
                       current_line |-> Append(st.current_line, word),
                       current_length |-> st.current_length + Len(word) + 1], limit)

\* The for loop of _add_line_breaks from word i on.  st holds result,
\* current_line and current_length; st.lines records the word lists of the lines
\* completed so far (result holds them joined, with the marker).
WrapLoop(words, i, st, limit) ==
    IF i > Len(words) THEN st
    ELSE LET word == words[i]
         IN  IF st.current_length + Len(word) > limit
             THEN WrapLoop(words, i + 1,
                      [result |-> Append(st.result,
                                         Join(st.current_line, <<" ">>) \o Marker),
                       lines |-> Append(st.lines, st.current_line),
                       current_line |-> <<word>>,
                       current_length |-> Len(word)], limit)
             ELSE WrapLoop(words, i + 1,
                      [result |-> st.result,
                       lines |-> st.lines,
                       current_line |-> Append(st.current_line, word),
                       current_length |-> st.current_length + Len(word) + 1], limit)

\* The loop's state after the last word.
WrapState(s, limit) ==
    WrapLoop(Split(s), 1,
             [result |-> << >>, lines |-> << >>, current_line |-> << >>,
              current_length |-> 0], limit)

\* The word lists of the output lines, the last line included.
WrapLines(s, limit) ==
    LET st == WrapState(s, limit)
    IN  IF st.current_line # << >> THEN Append(st.lines, st.current_line)
        ELSE st.lines

\* _add_line_breaks(text, char_limit)
AddLineBreaks(s, limit) ==
    LET st == WrapState(s, limit)
        result == IF st.current_line # << >>
                  THEN Append(st.result, Join(st.current_line, <<" ">>))
                  ELSE st.result
    IN  Join(result, <<" ">>)

\* The default char_limit.
DefaultCharLimit == 120

(***************************************************************************)
(* Tag names, attribute names and the literals of the code, as strings.    *)
(***************************************************************************)
DocumentName == <<"[", "d", "o", "c", "u", "m", "e", "n", "t", "]">>

TagA == <<"a">>

TagDiv == <<"d", "i", "v">>

TagSpan == <<"s", "p", "a", "n">>

TagP == <<"p">>

TagHtml == <<"h", "t", "m", "l">>

TagBody == <<"b", "o", "d", "y">>

KeyHref == <<"h", "r", "e", "f">>

KeyId == <<"i", "d">>

\* The attribute the mask annotation is stored under.
ElMask == <<"e", "l", "-", "m", "a", "s", "k">>

\* "href: "
HrefPrefix == <<"h", "r", "e", "f", ":", " ">>

\* 'N/A'
NotAvailable == <<"N", "/", "A">>

Digits == <<"0", "1", "2", "3", "4", "5", "6", "7", "8", "9">>

RECURSIVE Decimal(_)
\* str(n) for a natural number n.
Decimal(n) ==
    IF n < 10 THEN <<Digits[n + 1]>>
    ELSE Decimal(n \div 10) \o <<Digits[(n % 10) + 1]>>

(***************************************************************************)
(* Attribute dicts: sequences of [k, v] in insertion order.                *)
(***************************************************************************)
HasKey(d, k) == \E i \in 1..Len(d) : d[i].k = k

\* d[k], k a key of d.
Lookup(d, k) == d[CHOOSE i \in 1..Len(d) : d[i].k = k].v

\* d.get(k, default)
Get(d, k, default) == IF HasKey(d, k) THEN Lookup(d, k) ELSE default

\* d[k] = v
Store(d, k, v) ==
    IF HasKey(d, k)
    THEN [i \in 1..Len(d) |-> IF d[i].k = k THEN [k |-> k, v |-> v] ELSE d[i]]
    ELSE Append(d, [k |-> k, v |-> v])

\* str(d) of a dict of strings: {'k': 'v', ...}
StrDict(d) ==
    <<"{">> \o Join([i \in 1..Len(d) |->
                        <<"'">> \o d[i].k \o <<"'", ":", " ", "'">> \o d[i].v \o <<"'">>],
                    <<",", " ">>)
          \o <<"}">>

(***************************************************************************)
(* str(node): the markup of a node with everything below it.               *)
(***************************************************************************)
\* The attributes inside the opening tag:  k="v" for each.
AttrMarkup(d) ==
    Join([i \in 1..Len(d) |-> <<" ">> \o d[i].k \o <<"=", "\"">> \o d[i].v \o <<"\"">>],
         << >>)

RECURSIVE Serialize(_, _, _)
\* str(node) on the tree ch with the attribute dicts at.  The soup itself has no
\* markup of its own, only that of its contents.
Serialize(ch, at, x) ==
    LET inner == text[x] \o Join([i \in 1..Len(ch[x]) |-> Serialize(ch, at, ch[x][i])],
                                << >>)
    IN  IF x = Root THEN inner
        ELSE <<"<">> \o name[x] \o AttrMarkup(at[x]) \o <<">">> \o inner
                   \o <<"<", "/">> \o name[x] \o <<">">>

(***************************************************************************)
(* _mask_elements                                                          *)
(***************************************************************************)
\* default_mask_fn(node), html_dom_visualize lines 94-97.
DefaultMaskFn(ch, at, node) ==
    IF name[node] = TagA THEN HrefPrefix \o Get(at[node], KeyHref, NotAvailable)
    ELSE Serialize(ch, at, node)

RECURSIVE DecomposeAll(_, _, _, _)
RECURSIVE DecomposeAllLive(_, _, _, _)

\* DecomposeAll iterating node.children itself instead of a copy: every removal
\* shifts the rest and the loop skips the next child.
DecomposeAllLive(ch, node, kids, i) ==
    IF i > Len(kids) THEN ch
    ELSE DecomposeAllLive(Decompose(ch, node, kids[i]), node, kids, i + 2)

\* for child in list(node.children): child.decompose(), for the Tag children.
DecomposeAll(ch, node, kids, i) ==
    IF i > Len(kids) THEN ch
    ELSE DecomposeAll(Decompose(ch, node, kids[i]), node, kids, i + 1)

RECURSIVE MaskElements(_, _, _, _, _)
RECURSIVE MaskChildren(_, _, _, _, _, _)
RECURSIVE MaskElementsDetachFirst(_, _, _, _, _)

\* The second for loop of _mask_elements, over the copy `kids` of node's
\* children from position i on.  t is [ch, at].
MaskChildren(t, kids, i, node, p, fn) ==
    IF i > Len(kids) THEN t
    ELSE MaskChildren(MaskElements(t.ch, t.at, kids[i], p, fn), kids, i + 1, node, p, fn)

\* MaskElements with the children removed before mask_fn is called.
MaskElementsDetachFirst(ch, at, node, p, fn) ==
    IF Holds(p, node) /\ fn # "None"
    THEN LET cut == DecomposeAll(ch, node, ch[node], 1)
         IN  [ch |-> cut,
              at |-> [at EXCEPT ![node] = Store(at[node], ElMask,
                                                DefaultMaskFn(cut, at, node))]]
    ELSE MaskChildren([ch |-> ch, at |-> at], ch[node], 1, node, p, fn)

\* _mask_elements(node, should_mask, mask_fn) on the tree ch with the attribute
\* dicts at: the tree and the dicts it leaves.  fn is "default" or "None".
MaskElements(ch, at, node, p, fn) ==
    IF Holds(p, node) /\ fn # "None"
    THEN [ch |-> DecomposeAll(ch, node, ch[node], 1),
          at |-> [at EXCEPT ![node] = Store(at[node], ElMask,
                                            DefaultMaskFn(ch, at, node))]]
    ELSE MaskChildren([ch |-> ch, at |-> at], ch[node], 1, node, p, fn)

(***************************************************************************)
(* _plot_dom_treemap: traverse                                             *)
(***************************************************************************)
\* The node_id of a Tag without id(element): the tag name alone.
NodeIdNameOnly(x) == name[x]

\* node_id = f"{element.name}_{id(element)}"
NodeId(x) == name[x] \o <<"_">> \o Decimal(addr[x])

\* The hover text of a Tag showing its attribute dict whether masked or not.
HoverTextAttrsOnly(at, x) == AddLineBreaks(StrDict(at[x]), DefaultCharLimit)

\* The hover text of a Tag: lines 209-213.
HoverText(at, x) ==
    AddLineBreaks(IF HasKey(at[x], ElMask) THEN Lookup(at[x], ElMask)
                  ELSE StrDict(at[x]),
                  DefaultCharLimit)

RECURSIVE Traverse(_, _, _, _)

\* traverse(element, parent_id): the records it appends to tree_data, in order.
Traverse(ch, at, element, parent_id) ==
    LET below == [i \in 1..Len(ch[element]) |->
                     Traverse(ch, at, ch[element][i], NodeId(element))]
    IN  <<[id |-> NodeId(element), label |-> name[element],
           parent |-> parent_id, hover_text |-> HoverText(at, element)]>>
            \o Join(below, << >>)

(***************************************************************************)
(* Documents.                                                              *)
(***************************************************************************)
\* The Tag children of x in document order, for the parent links par over 1..n.
RECURSIVE ChildSeq(_, _, _, _)
ChildSeq(par, n, x, j) ==
    IF j > n THEN << >>
    ELSE (IF par[j] = x THEN <<j>> ELSE << >>) \o ChildSeq(par, n, x, j + 1)

\* Every tree over the soup and n Tags: a Tag's parent is created before it.
Shapes(n) == {par \in [1..n -> 0..(n - 1)] : \A j \in 1..n : par[j] < j}

ChildrenOf(par, n) == [x \in 0..n |-> ChildSeq(par, n, x, 1)]

\* id(element) for the soup and its n Tags: distinct integers, in the order the
\* objects were created or in the opposite order.
Addresses(n, up) == [x \in 0..n |-> IF up THEN 8 + x ELSE 8 + (n - x)]

\* No call of _add_line_breaks on its own is under way.
NoText ==
    /\ wtext = << >>
    /\ char_limit = DefaultCharLimit
    /\ wrapped = << >>
    /\ rewrapped = << >>

\* No document is under way: the soup of the empty document.
NoDocument ==
    /\ children = [x \in {Root} |-> << >>]
    /\ text = [x \in {Root} |-> << >>]
    /\ name = [x \in {Root} |-> DocumentName]
    /\ attrs = [x \in {Root} |-> << >>]
    /\ addr = Addresses(0, TRUE)
    /\ before = [children |-> children, attrs |-> attrs]
    /\ branch_filter = NoPredicate
    /\ should_mask = NoPredicate
    /\ mask_fn = "unset"
    /\ tree_data = << >>

(***************************************************************************)
(* Branch filtering: html_dom_visualize up to line 90, and a second call   *)
(* of _filter_branches on the filtered soup.                               *)
(***************************************************************************)
InitFilter ==
    /\ \E n \in 1..MaxFilterNodes : \E par \in Shapes(n) : \E leafText \in BOOLEAN :
          /\ children = ChildrenOf(par, n)
          /\ text = [x \in 0..n |->
                        IF leafText /\ x # Root /\ ChildSeq(par, n, x, 1) = << >>
                        THEN <<"x">> ELSE << >>]
          /\ name = [x \in 0..n |-> IF x = Root THEN DocumentName ELSE TagDiv]
          /\ attrs = [x \in 0..n |-> << >>]
          /\ addr = Addresses(n, TRUE)
          /\ branch_filter \in {NoPredicate} \cup {Predicate(S) : S \in SUBSET (0..n)}
    /\ before = [children |-> children, attrs |-> attrs]
    /\ should_mask = NoPredicate
    /\ mask_fn = "unset"
    /\ tree_data = << >>
    /\ NoText
    /\ pc = "parsed"

\* _filter_branches(soup, branch_filter), visualizer.py line 90.
Filter ==
    /\ pc = "parsed"
    /\ before' = [children |-> children, attrs |-> attrs]
    /\ children' = FilterBranches(children, Root, branch_filter).ch
    /\ pc' = "filtered"
    /\ UNCHANGED <<text, name, attrs, addr, branch_filter, should_mask, mask_fn,
                   tree_data, wtext, char_limit, wrapped, rewrapped>>

\* _filter_branches called once more with the same predicate.
FilterAgain ==
    /\ pc = "filtered"
    /\ before' = [children |-> children, attrs |-> attrs]
    /\ children' = FilterBranches(children, Root, branch_filter).ch
    /\ pc' = "refiltered"
    /\ UNCHANGED <<text, name, attrs, addr, branch_filter, should_mask, mask_fn,
                   tree_data, wtext, char_limit, wrapped, rewrapped>>

NextFilter == Filter \/ FilterAgain

SpecFilter == InitFilter /\ [][NextFilter]_vars

\* A call of _filter_branches with a predicate has returned.
Filtered == pc \in {"filtered", "refiltered"} /\ branch_filter.given

\* x satisfies keep or has a descendant, in the tree ch, that does.
KeepsBelow(ch, x) ==
    Holds(branch_filter, x) \/ \E d \in Descendants(ch, x) : Holds(branch_filter, d)

\* C1 as stated: after _filter_branches every element still in the tree below the
\* root satisfies keep or has a descendant that satisfies keep, elements lying
\* underneath an element that satisfies keep included.
C1_EveryRemainingKeepsBelow ==
    Filtered => \A x \in InTree(children) \ {Root} : KeepsBelow(children, x)

\* C1 amended: after _filter_branches every element still in the tree below the
\* root satisfies keep, or has a descendant that satisfies keep, or lies
\* underneath an element (the root included) that satisfies keep.
C1_RemainingKeepsBelowOrUnderKept ==
    Filtered =>
        \A x \in InTree(children) \ {Root} :
            \/ KeepsBelow(children, x)
            \/ \E a \in Ancestors(children, x) : Holds(branch_filter, a)

\* A filtered tree that lost a node, kept a failing ancestor of a match, and
\* kept a failing element with no match below it underneath a match.
C1_Witness ==
    /\ pc = "filtered" /\ branch_filter.given
    /\ InTree(children) # InTree(before.children)
    /\ \E x \in InTree(children) \ {Root} :
          ~Holds(branch_filter, x) /\ KeepsBelow(children, x)
    /\ \E x \in InTree(children) \ {Root} :
          /\ ~KeepsBelow(children, x)
          /\ \E a \in Ancestors(children, x) \ {Root} : Holds(branch_filter, a)

\* C2: every element that satisfies the predicate in the original tree is still
\* in the tree after _filter_branches, below the same ancestors, which are all
\* still in the tree, and every node of its subtree has the children it had.
C2_MatchKeepsAncestorsAndSubtree ==
    (pc = "filtered" /\ branch_filter.given) =>
        \A x \in InTree(before.children) :
            Holds(branch_filter, x) =>
                /\ x \in InTree(children)
                /\ Ancestors(before.children, x) \subseteq InTree(children)
                /\ Ancestors(children, x) = Ancestors(before.children, x)
                /\ \A d \in Subtree(before.children, x) :
                      children[d] = before.children[d]

\* A filtered tree that lost a node while a match below a Tag kept a failing
\* descendant.
C2_Witness ==
    /\ pc = "filtered" /\ branch_filter.given
    /\ InTree(children) # InTree(before.children)
    /\ \E x \in InTree(before.children) \ {Root} :
          /\ Holds(branch_filter, x)
          /\ Ancestors(before.children, x) # {Root}
          /\ \E d \in Descendants(children, x) : ~KeepsBelow(children, d)

\* C3: a second _filter_branches with the same keep detaches nothing: the tree
\* after two passes is the tree after one pass.
C3_FilterIdempotent ==
    (pc = "refiltered" /\ branch_filter.given) => children = before.children

\* A second pass over a tree whose first pass removed some Tags and kept others.
C3_Witness ==
    /\ pc = "refiltered" /\ branch_filter.given
    /\ InTree(children) # Nodes
    /\ InTree(children) # {Root}

(***************************************************************************)
(* The text wrapper on its own: _add_line_breaks(text, char_limit), and    *)
(* _add_line_breaks applied to its own result.                             *)
(***************************************************************************)
\* The characters the texts are drawn from.
Alphabet == {"a", " ", "\n"}

\* Every text of at most k characters.
Texts(k) == UNION {[1..m -> Alphabet] : m \in 0..k}

InitWrap ==
    /\ NoDocument
    /\ wtext \in Texts(MaxTextLen)
    /\ char_limit \in 0..MaxLimit
    /\ wrapped = << >>
    /\ rewrapped = << >>
    /\ pc = "text"

\* wrapped = _add_line_breaks(text, char_limit)
Wrap ==
    /\ pc = "text"
    /\ wrapped' = AddLineBreaks(wtext, char_limit)
    /\ pc' = "wrapped"
    /\ UNCHANGED <<children, text, name, attrs, addr, before, branch_filter,
                   should_mask, mask_fn, tree_data, wtext, char_limit, rewrapped>>

\* rewrapped = _add_line_breaks(wrapped, char_limit)
WrapAgain ==
    /\ pc = "wrapped"
    /\ rewrapped' = AddLineBreaks(wrapped, char_limit)
    /\ pc' = "rewrapped"
    /\ UNCHANGED <<children, text, name, attrs, addr, before, branch_filter,
                   should_mask, mask_fn, tree_data, wtext, char_limit, wrapped>>

NextWrap == Wrap \/ WrapAgain

SpecWrap == InitWrap /\ [][NextWrap]_vars

\* The length of the words joined by single spaces.
JoinedLen(words) == Len(Join(words, <<" ">>))

\* C7 as stated: with limit >= 1, every output line that holds two or more
\* words is at most limit characters long (the marker not counted), on the first
\* line and on every later line alike.
C7_PackedLinesWithinLimit ==
    (pc = "wrapped" /\ char_limit >= 1) =>
        \A k \in DOMAIN WrapLines(wtext, char_limit) :
            LET line == WrapLines(wtext, char_limit)[k]
            IN  Len(line) >= 2 => JoinedLen(line) <= char_limit

\* C8 as stated: wrapping the wrapped text again returns the wrapped text.
C8_WrapIdempotent ==
    pc = "rewrapped" => rewrapped = wrapped

\* C8 amended: wrapping the wrapped text again returns the wrapped text exactly
\* when the words of the text, joined by single spaces, are at most limit
\* characters long, that is when the first wrap inserted no marker.
C8_WrapIdempotentIffFits ==
    pc = "rewrapped" =>
        ((rewrapped = wrapped) <=> (JoinedLen(Split(wtext)) <= char_limit))

\* A text of several words and irregular whitespace that fits on one line, wrapped
\* twice.
C8_Witness ==
    /\ pc = "rewrapped"
    /\ Len(Split(wtext)) >= 2
    /\ JoinedLen(Split(wtext)) <= char_limit
    /\ wrapped # wtext
    /\ rewrapped = wrapped

(***************************************************************************)
(* Masking and flattening: html_dom_visualize lines 87-101 with no         *)
(* branch_filter, and _mask_elements called with mask_fn None.             *)
(***************************************************************************)
Attr(k, v) == [k |-> k, v |-> v]

\* What a Tag of a generated document is: <a href="u">, <a>x or <div id="a">.
Kinds ==
    {[name |-> TagA, attrs |-> <<Attr(KeyHref, <<"u">>)>>, text |-> << >>],
     [name |-> TagA, attrs |-> << >>, text |-> <<"x">>],
     [name |-> TagDiv, attrs |-> <<Attr(KeyId, <<"a">>)>>, text |-> << >>]}

\* The generated documents: every tree of at most MaxMaskNodes Tags of these kinds.
Documents ==
    UNION {[n : {n}, par : Shapes(n), kind : [1..n -> Kinds]] : n \in 1..MaxMaskNodes}

\* <html><body><div id="a"><span>x</span></div><p>y</p></body></html>
Scenario ==
    [n |-> 5,
     par |-> <<0, 1, 2, 3, 2>>,
     kind |-> <<[name |-> TagHtml, attrs |-> << >>, text |-> << >>],
                [name |-> TagBody, attrs |-> << >>, text |-> << >>],
                [name |-> TagDiv, attrs |-> <<Attr(KeyId, <<"a">>)>>, text |-> << >>],
                [name |-> TagSpan, attrs |-> << >>, text |-> <<"x">>],
                [name |-> TagP, attrs |-> << >>, text |-> <<"y">>]>>]

\* soup = BeautifulSoup(html, "html.parser") for the document d.
Parsed(d) ==
    /\ children = ChildrenOf(d.par, d.n)
    /\ text = [x \in 0..d.n |-> IF x = Root THEN << >> ELSE d.kind[x].text]
    /\ name = [x \in 0..d.n |-> IF x = Root THEN DocumentName ELSE d.kind[x].name]
    /\ attrs = [x \in 0..d.n |-> IF x = Root THEN << >> ELSE d.kind[x].attrs]

InitMask ==
    /\ \E d \in Documents \cup {Scenario} :
          /\ Parsed(d)
          /\ \E up \in BOOLEAN : addr = Addresses(d.n, up)
          /\ should_mask \in {Predicate(S) : S \in SUBSET (0..d.n)}
    /\ before = [children |-> children, attrs |-> attrs]
    /\ branch_filter = NoPredicate
    /\ mask_fn = "unset"
    /\ tree_data = << >>
    /\ NoText
    /\ pc = "parsed"

\* _mask_elements(soup, should_mask, mask_fn): with the default_mask_fn as line 99
\* passes it, or with mask_fn None.
Mask ==
    /\ pc = "parsed"
    /\ \E fn \in {"default", "None"} :
          LET t == MaskElements(children, attrs, Root, should_mask, fn)
          IN  /\ mask_fn' = fn
              /\ children' = t.ch
              /\ attrs' = t.at
    /\ before' = [children |-> children, attrs |-> attrs]
    /\ pc' = "masked"
    /\ UNCHANGED <<text, name, addr, branch_filter, should_mask, tree_data, wtext,
                   char_limit, wrapped, rewrapped>>

\* figure = _plot_dom_treemap(soup): traverse(node, "") fills tree_data.
Plot ==
    /\ pc = "masked"
    /\ tree_data' = Traverse(children, attrs, Root, << >>)
    /\ pc' = "plotted"
    /\ UNCHANGED <<children, text, name, attrs, addr, before, branch_filter,
                   should_mask, mask_fn, wtext, char_limit, wrapped, rewrapped>>

NextMask == Mask \/ Plot

SpecMask == InitMask /\ [][NextMask]_vars

\* x carries a mask annotation.
Annotated(x) == HasKey(attrs[x], ElMask)

\* C4: after _mask_elements every element that carries a mask annotation has no
\* element children; and when an element and one of its descendants both satisfy
\* shouldMask (and a maskText was given), the descendant carries no annotation
\* and is no longer in the tree.
C4_MaskedIsLeaf ==
    pc = "masked" =>
        /\ \A x \in Nodes : Annotated(x) => x \in InTree(children) /\ children[x] = << >>
        /\ \A x \in Nodes : \A d \in Descendants(before.children, x) :
              (Holds(should_mask, x) /\ Holds(should_mask, d) /\ mask_fn # "None") =>
                  ~Annotated(d) /\ d \notin InTree(children)

\* A masked element that had children, one of them matching shouldMask too.
C4_Witness ==
    /\ pc = "masked"
    /\ \E x \in InTree(children) \ {Root} :
          /\ Annotated(x)
          /\ Len(before.children[x]) >= 2
          /\ \E d \in Descendants(before.children, x) : Holds(should_mask, d)

RECURSIVE Preorder(_, _)
\* The nodes of the tree in pre-order.
Preorder(ch, x) ==
    <<x>> \o Join([i \in 1..Len(ch[x]) |-> Preorder(ch, ch[x][i])], << >>)

\* The parent of the Tag y in the tree ch.
ParentOf(ch, y) == CHOOSE x \in DOMAIN ch : \E i \in 1..Len(ch[x]) : ch[x][i] = y

\* C5: in the records traverse produces every id is distinct from every other,
\* the root's parent is the empty string, and every other record's parent is the
\* id of a strictly earlier record, the one of that element's parent in the tree.
C5_ParentPrecedes ==
    pc = "plotted" =>
        LET order == Preorder(children, Root)
        IN  /\ Len(tree_data) = Len(order)
            /\ \A j, k \in 1..Len(tree_data) :
                  j # k => tree_data[j].id # tree_data[k].id
            /\ \A k \in 1..Len(tree_data) :
                  IF k = 1 THEN tree_data[k].parent = << >>
                  ELSE /\ tree_data[k].parent # << >>
                       /\ \E j \in 1..(k - 1) :
                             /\ tree_data[j].id = tree_data[k].parent
                             /\ order[j] = ParentOf(children, order[k])

\* Records of a tree whose pre-order is not the order of creation, with two Tags of
\* one name and a record whose parent is not the record just before it.
C5_Witness ==
    /\ pc = "plotted"
    /\ Len(tree_data) >= 4
    /\ \E j, k \in 2..Len(tree_data) : j # k /\ tree_data[j].label = tree_data[k].label
    /\ \E k \in 2..Len(tree_data) : tree_data[k].parent # tree_data[k - 1].id
    /\ \E k \in 2..Len(tree_data) : Preorder(children, Root)[k] # k - 1

\* The scenario: the document, shouldMask = (tag is div), the default maskText.
ScenarioRun ==
    /\ DOMAIN children = 0..Scenario.n
    /\ before.children = ChildrenOf(Scenario.par, Scenario.n)
    /\ \A x \in 1..Scenario.n : name[x] = Scenario.kind[x].name
    /\ should_mask.sat = {3}
    /\ mask_fn = "default"

\* <div id="a"><span>x</span></div>
ScenarioMarkup ==
    <<"<", "d", "i", "v", " ", "i", "d", "=", "\"", "a", "\"", ">">>
        \o <<"<", "s", "p", "a", "n", ">", "x", "<", "/", "s", "p", "a", "n", ">">>
        \o <<"<", "/", "d", "i", "v", ">">>

\* The labels of the records, in order.
Labels == [k \in 1..Len(tree_data) |-> tree_data[k].label]

\* C6 as stated: flattening the masked scenario yields exactly 3 records, labelled
\* html, body, div in that order, the div's hover text being its annotation
\* passed through the 120-character wrapper.
C6_ScenarioThreeRecords ==
    (pc = "plotted" /\ ScenarioRun) =>
        /\ Labels = <<TagHtml, TagBody, TagDiv>>
        /\ tree_data[3].hover_text = AddLineBreaks(Lookup(attrs[3], ElMask), DefaultCharLimit)

\* C6 amended: flattening the masked scenario yields exactly 5 records, labelled
\* [document], html, body, div, p in that order; the div's annotation is its
\* markup and its hover text is the annotation passed through the
\* 120-character wrapper, which leaves it as it is.
C6_ScenarioFiveRecords ==
    (pc = "plotted" /\ ScenarioRun) =>
        /\ Labels = <<DocumentName, TagHtml, TagBody, TagDiv, TagP>>
        /\ Lookup(attrs[3], ElMask) = ScenarioMarkup
        /\ tree_data[4].hover_text = AddLineBreaks(ScenarioMarkup, DefaultCharLimit)
        /\ tree_data[4].hover_text = ScenarioMarkup

\* The scenario, masked and flattened.
C6_Witness ==
    /\ pc = "plotted" /\ ScenarioRun
    /\ children[3] = << >>
    /\ Len(tree_data) = 5

C10_MissingMaskFnFails ==
    ~(/\ pc = "masked"
      /\ mask_fn = "None"
      /\ \E x \in InTree(children) : Holds(should_mask, x) /\ ~Annotated(x))

====
